---- MODULE Spec2Model ----
(***************************************************************************)
(* Amberarctic storefront backend (src/main.py, src/schemas.py).           *)
(*                                                                         *)
(* The state is the document store (four collections), the process-wide    *)
(* store handle `db`, the availability of the store behind it, and the     *)
(* last HTTP response. The environment variables GET /test reports are an  *)
(* input of that request.                                                  *)
(* Every endpoint that issues at most one store operation is one action;   *)
(* POST /seed is one step per store operation, so that other requests are  *)
(* served between its find and its inserts.                                *)
(*                                                                         *)
(* Optional[T] values are sequences: <<>> is None, <<v>> is a value v.     *)
(***************************************************************************)
EXTENDS Integers, Sequences, FiniteSets, TLC

VARIABLES
    db,              \* the imported handle: "None", "Database" or "TruthyHandle"
    storeUp,         \* whether operations on the store currently succeed
    product,         \* db["product"]: sequence of documents, in insertion order
    review,          \* db["review"]
    contactmessage,  \* db["contactmessage"]
    order,           \* db["order"]
    resp,            \* the last response: endpoint, request, status, body, store ops issued
    clients          \* concurrent POST /seed requests: position and locals of each

vars == <<db, storeUp, product, review, contactmessage, order, resp, clients>>
collections == <<product, review, contactmessage, order>>

----------------------------------------------------------------------------
(* Bounds of the model *)

\* documents present in the product collection before the first request
MaxInitial == 1
\* cap on documents written to review + contactmessage + order in one run
MaxDocs == 1
\* concurrent POST /seed requests
NumClients == 2

----------------------------------------------------------------------------
(* Optional values and Python truthiness *)

None == <<>>
Some(v) == <<v>>

\* `if s:` for s : Optional[str] -- None and "" are both falsy
Truthy(s) == s # None /\ s[1] # ""

Min(a, b) == IF a < b THEN a ELSE b

----------------------------------------------------------------------------
(* The sample catalog of POST /seed; only the fields a handler reads or     *)
(* filters on are carried (slug, gender, activity, temperature_min_c) plus  *)
(* title and price.                                                         *)

sample_products == <<
    [title |-> "Arctic Edge Pro", slug |-> "arctic-edge-pro", gender |-> "Unisex",
     activity |-> <<"city", "hiking", "travel">>, price |-> 399,
     temperature_min_c |-> -30],
    [title |-> "Polar Stealth Lite", slug |-> "polar-stealth-lite", gender |-> "Men",
     activity |-> <<"city", "biking">>, price |-> 329,
     temperature_min_c |-> -20],
    [title |-> "Glacier Flow Aero", slug |-> "glacier-flow-aero", gender |-> "Women",
     activity |-> <<"travel", "hiking">>, price |-> 349,
     temperature_min_c |-> -18] >>

\* products some other writer put in the collection before the run
other_products == <<
    [title |-> "Harbor Shell", slug |-> "harbor-shell", gender |-> "Women",
     activity |-> <<>>, price |-> 99, temperature_min_c |-> 5],
    [title |-> "Summit Down", slug |-> "summit-down", gender |-> "Men",
     activity |-> <<"hiking">>, price |-> 259, temperature_min_c |-> -25],
    [title |-> "Tundra Core", slug |-> "tundra-core", gender |-> "Unisex",
     activity |-> <<"city">>, price |-> 199, temperature_min_c |-> -20] >>

----------------------------------------------------------------------------
(* Document store operations *)

\* the handles the database module can export: None when it could not connect,
\* a pymongo Database, or a handle object with an ordinary truth value
Handles == {"Database", "TruthyHandle"}

\* `if db`: bool(db). A pymongo Database does not implement truth value testing:
\* its __bool__ raises NotImplementedError
db_bool ==
    CASE db = "None" -> "False"
      [] db = "Database" -> "raises"
      [] OTHER -> "True"

\* the handle exists and the store answers
Available == db \in Handles /\ storeUp

\* create_document(name, data) of the database module: insert_one into the
\* collection; the store assigns a fresh identifier (no document is ever deleted)
create_document(coll, data) == Append(coll, [_id |-> Len(coll) + 1] @@ data)

\* str(ObjectId)
str(id) == ToString(id)

\* it["_id"] = str(it["_id"])
serialize(doc) == [doc EXCEPT !._id = str(doc._id)]

\* a find filter: one optional criterion per field the handlers filter on
\*   gender: exact match; activity: {"$in": [a]}; temperature_min_c: {"$lte": t}
matches(doc, query) ==
    /\ (query.gender # None => doc.gender = query.gender[1])
    /\ (query.activity # None =>
            \E i \in DOMAIN doc.activity : doc.activity[i] = query.activity[1])
    /\ (query.temperature_min_c # None =>
            doc.temperature_min_c <= query.temperature_min_c[1])

find(coll, query) == SelectSeq(coll, LAMBDA d : matches(d, query))

\* find_one({"slug": slug}): the first match in natural order, or None
find_one(coll, slug) ==
    LET hits == SelectSeq(coll, LAMBDA d : d.slug = slug)
    IN  IF hits = <<>> THEN None ELSE Some(hits[1])

\* find({"product_slug": s}) on the review collection
find_reviews(coll, slug) == SelectSeq(coll, LAMBDA d : d.product_slug = slug)

\* list_collection_names(): a collection exists once it holds a document
list_collection_names ==
    SelectSeq(<<"contactmessage", "order", "product", "review">>,
              LAMBDA n : CASE n = "product" -> product # <<>>
                           [] n = "review" -> review # <<>>
                           [] n = "contactmessage" -> contactmessage # <<>>
                           [] OTHER -> order # <<>>)

----------------------------------------------------------------------------
(* Responses *)

Response(endpoint, request, status, body, ops) ==
    [endpoint |-> endpoint, request |-> request, status |-> status,
     body |-> body, ops |-> ops]

NoRequest == [none |-> TRUE]

\* HTTPException(status_code=500, detail=str(e))
Error500(endpoint, request, ops) ==
    Response(endpoint, request, 500, [detail |-> "store error"], ops)

\* FastAPI's answer to a body that fails its schema: 422 naming the fields
Error422(endpoint, request, fields) ==
    Response(endpoint, request, 422, [loc |-> fields], <<>>)

----------------------------------------------------------------------------
(* Schemas (src/schemas.py): the fields that fail validation *)

\* Field(...): a required field that is absent
required(body, f) == IF body[f] = None THEN {f} ELSE {}

\* Field(..., ge=lo, le=hi) on a required integer
bounded(body, f, lo, hi) ==
    IF body[f] = None \/ body[f][1] < lo \/ body[f][1] > hi THEN {f} ELSE {}

\* Field(..., ge=lo) on a required number
at_least(body, f, lo) ==
    IF body[f] = None \/ body[f][1] < lo THEN {f} ELSE {}

ReviewErrors(body) ==
    required(body, "product_slug") \cup required(body, "name")
        \cup bounded(body, "rating", 1, 5) \cup required(body, "comment")

ContactMessageErrors(body) ==
    required(body, "name") \cup required(body, "email") \cup required(body, "message")

SizeProfileErrors(body) ==
    bounded(body, "height_cm", 120, 230) \cup bounded(body, "weight_kg", 35, 180)
        \cup required(body, "build")

OrderItemErrors(item) ==
    required(item, "product_slug") \cup required(item, "size")
        \cup required(item, "color") \cup at_least(item, "quantity", 1)

\* Order without the ge=0 constraint on total
OrderErrors_no_total_bound(body) ==
    (IF body.items = None
        \/ \E i \in DOMAIN body.items[1] : OrderItemErrors(body.items[1][i]) # {}
     THEN {"items"} ELSE {})
        \cup required(body, "email") \cup required(body, "shipping_name")
        \cup required(body, "shipping_address") \cup required(body, "city")
        \cup required(body, "country") \cup required(body, "postal_code")
        \cup required(body, "total")

OrderErrors(body) ==
    (IF body.items = None
        \/ \E i \in DOMAIN body.items[1] : OrderItemErrors(body.items[1][i]) # {}
     THEN {"items"} ELSE {})
        \cup required(body, "email") \cup required(body, "shipping_name")
        \cup required(body, "shipping_address") \cup required(body, "city")
        \cup required(body, "country") \cup required(body, "postal_code")
        \cup at_least(body, "total", 0)

\* the validated models, as the documents create_document stores
Review(body) ==
    [product_slug |-> body.product_slug[1], name |-> body.name[1],
     rating |-> body.rating[1], comment |-> body.comment[1], city |-> body.city]

ContactMessage(body) ==
    [name |-> body.name[1], email |-> body.email[1], message |-> body.message[1]]

OrderItem(item) ==
    [product_slug |-> item.product_slug[1], size |-> item.size[1],
     color |-> item.color[1], quantity |-> item.quantity[1]]

Order(body) ==
    [items |-> [i \in DOMAIN body.items[1] |-> OrderItem(body.items[1][i])],
     email |-> body.email[1], shipping_name |-> body.shipping_name[1],
     shipping_address |-> body.shipping_address[1], city |-> body.city[1],
     country |-> body.country[1], postal_code |-> body.postal_code[1],
     total |-> body.total[1]]

----------------------------------------------------------------------------
(* Handlers: the response each request produces in the current state *)

\* the store operations a handler that reaches for the store issues: indexing the
\* absent handle raises before any operation is sent
attempted(op) == IF db = "None" THEN <<>> ELSE <<op>>

root == Response("root", NoRequest, 200, [brand |-> "Amberarctic", status |-> "ok"], <<>>)

\* test_database without the inner try: a failing list_collection_names escapes
test_database_raising(url_set, name_set) ==
    LET base == [backend |-> "Running",
                 database_url |-> IF url_set THEN "Set" ELSE "Not Set",
                 database_name |-> IF name_set THEN "Set" ELSE "Not Set"]
        req  == [DATABASE_URL |-> url_set, DATABASE_NAME |-> name_set]
    IN  IF db # "None"
        THEN IF storeUp
             THEN Response("test", req, 200,
                      base @@ [database |-> "Connected & Working",
                               connection_status |-> "Connected",
                               collections |-> list_collection_names],
                      <<"list_collection_names">>)
             ELSE Error500("test", req, <<"list_collection_names">>)
        ELSE Response("test", req, 200,
                 base @@ [database |-> "Available but not initialized",
                          connection_status |-> "Not Connected",
                          collections |-> <<>>],
                 <<>>)

test_database(url_set, name_set) ==
    LET base == [backend |-> "Running",
                 database_url |-> IF url_set THEN "Set" ELSE "Not Set",
                 database_name |-> IF name_set THEN "Set" ELSE "Not Set"]
        req  == [DATABASE_URL |-> url_set, DATABASE_NAME |-> name_set]
    IN  IF db # "None"
        THEN IF storeUp
             THEN Response("test", req, 200,
                      base @@ [database |-> "Connected & Working",
                               connection_status |-> "Connected",
                               collections |-> list_collection_names],
                      <<"list_collection_names">>)
             ELSE Response("test", req, 200,
                      base @@ [database |-> "Connected but Error",
                               connection_status |-> "Connected",
                               collections |-> <<>>],
                      <<"list_collection_names">>)
        ELSE Response("test", req, 200,
                 base @@ [database |-> "Available but not initialized",
                          connection_status |-> "Not Connected",
                          collections |-> <<>>],
                 <<>>)

\* the query built with `if min_temp:` -- a min_temp of 0 is dropped
list_products_query_falsy(gender, activity, min_temp) ==
    [gender |-> IF Truthy(gender) THEN gender ELSE None,
     activity |-> IF Truthy(activity) THEN activity ELSE None,
     temperature_min_c |-> IF min_temp # None /\ min_temp[1] # 0 THEN min_temp ELSE None]

\* the query dict list_products builds from its parameters
list_products_query(gender, activity, min_temp) ==
    [gender |-> IF Truthy(gender) THEN gender ELSE None,
     activity |-> IF Truthy(activity) THEN activity ELSE None,
     temperature_min_c |-> IF min_temp # None THEN min_temp ELSE None]

list_products(gender, activity, min_temp) ==
    LET req   == [gender |-> gender, activity |-> activity, min_temp |-> min_temp]
        items == find(product, list_products_query(gender, activity, min_temp))
    IN  IF Available
        THEN Response("list_products", req, 200,
                 [items |-> [i \in DOMAIN items |-> serialize(items[i])]], <<"find">>)
        ELSE Error500("list_products", req, attempted("find"))

\* the body of get_product's try block: what it returns or raises
get_product_try(slug) ==
    IF ~Available
    THEN [raised |-> "Exception", status |-> 500, body |-> [detail |-> "store error"]]
    ELSE LET doc == find_one(product, slug)
         IN  IF doc = None
             THEN [raised |-> "HTTPException", status |-> 404,
                   body |-> [detail |-> "Product not found"]]
             ELSE [raised |-> "none", status |-> 200,
                   body |-> [doc |-> serialize(doc[1])]]

\* get_product without `except HTTPException: raise`: the 404 is caught as an Exception
get_product_catch_all(slug) ==
    LET out == get_product_try(slug)
        req == [slug |-> slug]
    IN  IF out.raised # "none"
        THEN Error500("get_product", req, attempted("find_one"))
        ELSE Response("get_product", req, out.status, out.body, <<"find_one">>)

\* except HTTPException: raise / except Exception: raise HTTPException(500)
get_product(slug) ==
    LET out == get_product_try(slug)
        req == [slug |-> slug]
    IN  IF out.raised = "Exception"
        THEN Error500("get_product", req, attempted("find_one"))
        ELSE Response("get_product", req, out.status, out.body, <<"find_one">>)

get_reviews(product_slug) ==
    LET req   == [path_slug |-> product_slug]
        items == find_reviews(review, product_slug)
    IN  IF Available
        THEN Response("get_reviews", req, 200,
                 [reviews |-> [i \in DOMAIN items |-> serialize(items[i])]], <<"find">>)
        ELSE Error500("get_reviews", req, attempted("find"))

\* store_body retrying a failed insert once
store_body_retry(endpoint, body) ==
    IF Available
    THEN Response(endpoint, body, 200, [ok |-> TRUE], <<"insert_one">>)
    ELSE Error500(endpoint, body, attempted("insert_one") \o attempted("insert_one"))

\* the three handlers that store a validated body share one shape:
\* create_document once, {"ok": True}, any exception becomes a 500
store_body(endpoint, body) ==
    IF Available
    THEN Response(endpoint, body, 200, [ok |-> TRUE], <<"insert_one">>)
    ELSE Error500(endpoint, body, attempted("insert_one"))

add_review(body) == store_body("add_review", body)

send_contact(body) == store_body("send_contact", body)

checkout(body) == store_body("checkout", body)

\* the score of recommend_size
size_score(h, w, build) ==
    LET score == (h - 160) + (w - 60)
    IN  IF build \in {"athletic", "broad"} THEN score + 10 ELSE score

\* the bands with inclusive upper ends
size_label_inclusive(score) ==
    IF score <= 0 THEN "XS"
    ELSE IF score <= 10 THEN "S"
    ELSE IF score <= 20 THEN "M"
    ELSE IF score <= 30 THEN "L"
    ELSE IF score <= 40 THEN "XL"
    ELSE "XXL"

size_label(score) ==
    IF score < 0 THEN "XS"
    ELSE IF score < 10 THEN "S"
    ELSE IF score < 20 THEN "M"
    ELSE IF score < 30 THEN "L"
    ELSE IF score < 40 THEN "XL"
    ELSE "XXL"

recommend_size(profile) ==
    Response("recommend_size", profile, 200,
        [recommended_size |->
            size_label(size_score(profile.height_cm[1], profile.weight_kg[1],
                                  profile.build[1]))],
        <<>>)

----------------------------------------------------------------------------
(* POST /seed: the handler waits on the store once for its find and once per  *)
(* insert; each wait is a step, and other requests are served in between      *)

Clients == 1..NumClients

Idle == [pc |-> "idle", i |-> 1]

\* the store operations a seed has issued once it has attempted `inserts` inserts
seed_ops(inserts) == attempted("find") \o [k \in 1..inserts |-> "insert_one"]

\* str(e) of the NotImplementedError raised by bool(db)
BoolError == "Database objects do not implement truth value testing or bool()"

Return(c, response) ==
    /\ resp' = response
    /\ clients' = [clients EXCEPT ![c] = Idle]

SeedBegin(c) ==
    /\ clients[c].pc = "idle"
    /\ clients' = [clients EXCEPT ![c] = [pc |-> "find", i |-> 1]]
    /\ UNCHANGED <<db, storeUp, collections, resp>>

\* existing = list(db["product"].find({})) if db else []; if existing: return ...
SeedFind(c) ==
    /\ clients[c].pc = "find"
    /\ IF db_bool = "raises"
       THEN Return(c, Response("seed", NoRequest, 500, [detail |-> BoolError], <<>>))
       ELSE IF db_bool = "True" /\ ~storeUp
       THEN Return(c, Error500("seed", NoRequest, <<"find">>))
       ELSE LET existing == IF db_bool = "True" THEN product ELSE <<>>
            IN  IF existing # <<>>
                THEN Return(c, Response("seed", NoRequest, 200,
                                   [seeded |-> FALSE, count |-> Len(existing)],
                                   <<"find">>))
                ELSE /\ clients' = [clients EXCEPT ![c] = [pc |-> "insert", i |-> 1]]
                     /\ UNCHANGED resp
    /\ UNCHANGED <<db, storeUp, collections>>

\* one create_document("product", p) of the loop; after the last one, return
SeedInsert(c) ==
    /\ clients[c].pc = "insert"
    /\ LET i == clients[c].i
       IN  IF ~Available
           THEN /\ Return(c, Error500("seed", NoRequest,
                                 IF db = "None" THEN <<>> ELSE seed_ops(i)))
                /\ UNCHANGED product
           ELSE /\ product' = create_document(product, sample_products[i])
                /\ IF i = Len(sample_products)
                   THEN Return(c, Response("seed", NoRequest, 200,
                                      [seeded |-> TRUE, count |-> Len(sample_products)],
                                      seed_ops(i)))
                   ELSE /\ clients' = [clients EXCEPT ![c].i = i + 1]
                        /\ UNCHANGED resp
    /\ UNCHANGED <<db, storeUp, review, contactmessage, order>>

----------------------------------------------------------------------------
(* Request inputs *)

GenderParams == {None, Some(""), Some("Men")}
ActivityParams == {None, Some(""), Some("city")}
MinTempParams == {None, Some(0), Some(-20)}
Slugs == {"arctic-edge-pro", "harbor-shell", "unknown-slug"}

BaseReview ==
    [product_slug |-> Some("arctic-edge-pro"), name |-> Some("Ana"),
     rating |-> Some(5), comment |-> Some("warm"), city |-> None]

ReviewBodies ==
    {[BaseReview EXCEPT !.rating = r] : r \in {None, Some(0), Some(5), Some(6)}}
        \cup {[BaseReview EXCEPT !.product_slug = None],
              [BaseReview EXCEPT !.name = None],
              [BaseReview EXCEPT !.comment = None],
              [BaseReview EXCEPT !.product_slug = Some("unknown-slug"),
                                 !.rating = Some(1), !.city = Some("Oslo")]}

BaseContact ==
    [name |-> Some("Ana"), email |-> Some("ana@example.com"), message |-> Some("hello")]

ContactBodies ==
    {BaseContact, [BaseContact EXCEPT !.name = None],
     [BaseContact EXCEPT !.email = None], [BaseContact EXCEPT !.message = None]}

BaseItem ==
    [product_slug |-> Some("arctic-edge-pro"), size |-> Some("M"),
     color |-> Some("Frost White"), quantity |-> Some(1)]

BaseOrder ==
    [items |-> Some(<<BaseItem>>), email |-> Some("ana@example.com"),
     shipping_name |-> Some("Ana"), shipping_address |-> Some("1 Fjord St"),
     city |-> Some("Oslo"), country |-> Some("NO"), postal_code |-> Some("0150"),
     total |-> Some(399)]

OrderBodies ==
    {[BaseOrder EXCEPT !.total = t] : t \in {None, Some(-5), Some(-1), Some(399)}}
        \cup {[BaseOrder EXCEPT !.items = Some(<<[BaseItem EXCEPT !.quantity = q]>>)] :
                 q \in {None, Some(0)}}
        \cup {[BaseOrder EXCEPT !.items = None],
              [BaseOrder EXCEPT !.items = Some(<<>>), !.total = Some(0)],
              [BaseOrder EXCEPT !.items = Some(<<BaseItem, [BaseItem EXCEPT !.size = None]>>)],
              [BaseOrder EXCEPT !.email = None],
              [BaseOrder EXCEPT !.postal_code = None]}

Builds == {"slim", "average", "athletic", "broad", "stocky"}
ProfileGenders == {None, Some("Men"), Some("Women")}

\* every profile the schema accepts, and the nearest ones it rejects
AllSizeProfiles ==
    [height_cm : {Some(h) : h \in 119..231}, weight_kg : {Some(w) : w \in 34..181},
     build : {Some(b) : b \in Builds}, gender : ProfileGenders]

BaseProfile ==
    [height_cm |-> Some(170), weight_kg |-> Some(70), build |-> Some("average"),
     gender |-> None]

\* the profiles the request action of the full API draws from
SizeBodies ==
    {[BaseProfile EXCEPT !.height_cm = h] : h \in {None, Some(119), Some(170), Some(231)}}
        \cup {[BaseProfile EXCEPT !.weight_kg = w] : w \in {Some(34), Some(181)}}
        \cup {[BaseProfile EXCEPT !.build = None],
              [BaseProfile EXCEPT !.build = Some("athletic"), !.gender = Some("Men")]}

----------------------------------------------------------------------------
(* Actions: one per endpoint, the whole handler *)

\* room left under the cap on written documents
CanWrite == Len(review) + Len(contactmessage) + Len(order) < MaxDocs

Root ==
    /\ resp' = root
    /\ UNCHANGED <<db, storeUp, collections, clients>>

TestDatabase(url_set, name_set) ==
    /\ resp' = test_database(url_set, name_set)
    /\ UNCHANGED <<db, storeUp, collections, clients>>

ListProducts(gender, activity, min_temp) ==
    /\ resp' = list_products(gender, activity, min_temp)
    /\ UNCHANGED <<db, storeUp, collections, clients>>

GetProduct(slug) ==
    /\ resp' = get_product(slug)
    /\ UNCHANGED <<db, storeUp, collections, clients>>

GetReviews(product_slug) ==
    /\ resp' = get_reviews(product_slug)
    /\ UNCHANGED <<db, storeUp, collections, clients>>

AddReview(body) ==
    IF ReviewErrors(body) # {}
    THEN /\ resp' = Error422("add_review", body, ReviewErrors(body))
         /\ UNCHANGED <<db, storeUp, collections, clients>>
    ELSE /\ Available => CanWrite
         /\ resp' = add_review(body)
         /\ review' = IF Available THEN create_document(review, Review(body)) ELSE review
         /\ UNCHANGED <<db, storeUp, product, contactmessage, order, clients>>

SendContact(body) ==
    IF ContactMessageErrors(body) # {}
    THEN /\ resp' = Error422("send_contact", body, ContactMessageErrors(body))
         /\ UNCHANGED <<db, storeUp, collections, clients>>
    ELSE /\ Available => CanWrite
         /\ resp' = send_contact(body)
         /\ contactmessage' = IF Available
                              THEN create_document(contactmessage, ContactMessage(body))
                              ELSE contactmessage
         /\ UNCHANGED <<db, storeUp, product, review, order, clients>>

Checkout(body) ==
    IF OrderErrors(body) # {}
    THEN /\ resp' = Error422("checkout", body, OrderErrors(body))
         /\ UNCHANGED <<db, storeUp, collections, clients>>
    ELSE /\ Available => CanWrite
         /\ resp' = checkout(body)
         /\ order' = IF Available THEN create_document(order, Order(body)) ELSE order
         /\ UNCHANGED <<db, storeUp, product, review, contactmessage, clients>>

RecommendSize(body) ==
    /\ resp' = IF SizeProfileErrors(body) # {}
               THEN Error422("recommend_size", body, SizeProfileErrors(body))
               ELSE recommend_size(body)
    /\ UNCHANGED <<db, storeUp, collections, clients>>

\* the environment: the store behind the handle goes away and comes back
StoreFail ==
    /\ db \in Handles /\ storeUp
    /\ storeUp' = FALSE
    /\ UNCHANGED <<db, collections, resp, clients>>

StoreRecover ==
    /\ db \in Handles /\ ~storeUp
    /\ storeUp' = TRUE
    /\ UNCHANGED <<db, collections, resp, clients>>

----------------------------------------------------------------------------
(* The whole API. seed is a sync handler that runs in the thread pool with no *)
(* lock or queue: a POST /seed is accepted while others are in flight, and    *)
(* the requests of the other endpoints are served between the store           *)
(* operations of every seed                                                   *)

NoResponse == Response("none", NoRequest, 0, [none |-> TRUE], <<>>)

InitialProducts ==
    {[i \in 1..k |-> [_id |-> i] @@ other_products[i]] :
        k \in 0..Min(MaxInitial, Len(other_products))}

NoSeedInFlight == \A c \in Clients : clients[c].pc = "idle"

Init ==
    /\ db \in {"None"} \cup Handles
    /\ storeUp = (db \in Handles)
    /\ product \in InitialProducts
    /\ review = <<>>
    /\ contactmessage = <<>>
    /\ order = <<>>
    /\ resp = NoResponse
    /\ clients = [c \in Clients |-> Idle]

\* every step but the arrival of a POST /seed
Serve ==
    \/ Root
    \/ \E u \in BOOLEAN, n \in BOOLEAN : TestDatabase(u, n)
    \/ \E c \in Clients : SeedFind(c)
    \/ \E c \in Clients : SeedInsert(c)
    \/ \E g \in GenderParams, a \in ActivityParams, t \in MinTempParams :
            ListProducts(g, a, t)
    \/ \E s \in Slugs : GetProduct(s)
    \/ \E s \in Slugs : GetReviews(s)
    \/ \E b \in ReviewBodies : AddReview(b)
    \/ \E b \in ContactBodies : SendContact(b)
    \/ \E b \in OrderBodies : Checkout(b)
    \/ \E b \in SizeBodies : RecommendSize(b)
    \/ StoreFail
    \/ StoreRecover

Next ==
    \/ \E c \in Clients : SeedBegin(c)
    \/ Serve

Spec == Init /\ [][Next]_vars

----------------------------------------------------------------------------
(* The behaviours in which the POST /seed requests are issued one after       *)
(* another, each completing before the next starts; the other endpoints are   *)
(* served as in Spec                                                          *)

NextSeq ==
    \/ NoSeedInFlight /\ \E c \in Clients : SeedBegin(c)
    \/ Serve

SpecSeq == Init /\ [][NextSeq]_vars

----------------------------------------------------------------------------
(* A connected, empty store *)

InitEmpty ==
    /\ db \in Handles
    /\ storeUp = TRUE
    /\ product = <<>>
    /\ review = <<>>
    /\ contactmessage = <<>>
    /\ order = <<>>
    /\ resp = NoResponse
    /\ clients = [c \in Clients |-> Idle]

----------------------------------------------------------------------------
(* POST /size/recommend over every profile: the handler reads and writes no  *)
(* state, so one request per behaviour covers it                             *)

NextSize == resp = NoResponse /\ \E b \in AllSizeProfiles : RecommendSize(b)

SpecSize == InitEmpty /\ [][NextSize]_vars

----------------------------------------------------------------------------
(* Properties *)

SampleSlugs == {sample_products[i].slug : i \in DOMAIN sample_products}

\* how many stored products carry a sample slug
SeededCount(coll) == Cardinality({i \in DOMAIN coll : coll[i].slug \in SampleSlugs})

\* a step that answered a request of `endpoint`
Answered(endpoint) == resp' # resp /\ resp'.endpoint = endpoint

\* the step in which seed request c runs its existence check
ChecksExisting(c) == clients[c].pc = "find" /\ clients'[c].pc # "find"

\* the sample slugs that some stored product carries
SeededSlugs(coll) == {coll[i].slug : i \in DOMAIN coll} \cap SampleSlugs

\* C1: with /seed requests served one after another, the product collection never
\* holds more than 3 seeded documents; on a store that answers, a seed that finds the
\* collection empty goes on to insert the samples, and the seed that completes
\* returns {seeded: true, count: 3} with exactly the 3 samples stored; a seed that
\* finds the collection non-empty writes nothing and returns
\* {seeded: false, count: <existing count>}.
C1_SequentialSeedIdempotent ==
    [][/\ SeededCount(product') <= 3
       /\ \A c \in Clients :
            (ChecksExisting(c) /\ Available) =>
                IF product = <<>>
                THEN clients'[c].pc = "insert"
                ELSE /\ product' = product
                     /\ resp' = Response("seed", NoRequest, 200,
                                    [seeded |-> FALSE, count |-> Len(product)],
                                    <<"find">>)
       /\ (Answered("seed") /\ resp'.status = 200 /\ resp'.body.seeded) =>
            /\ resp'.body.count = 3
            /\ Len(product') = 3
            /\ \A i \in 1..3 : product'[i].slug = sample_products[i].slug
      ]_vars

\* C2: under concurrent /seed requests on an empty collection no sample slug is
\* stored twice and the collection never exceeds 3 documents. (A collection that is
\* not empty at the start is never written by a seed and stays within both limits.)
C2_ConcurrentSeedNoDuplicates ==
    /\ Len(product) <= 3
    /\ \A i, j \in DOMAIN product : product[i].slug = product[j].slug => i = j

\* the reference mapping of the size bands: strict less-than thresholds at 0, 10, 20, 30, 40
ReferenceSize(height_cm, weight_kg, build) ==
    LET bonus == IF build = "athletic" \/ build = "broad" THEN 10 ELSE 0
        score == (height_cm - 160) + (weight_kg - 60) + bonus
    IN  CASE score < 0 -> "XS"
          [] score >= 40 -> "XXL"
          [] OTHER -> <<"S", "M", "L", "XL">>[(score \div 10) + 1]

\* C3: for every profile with height 120..230 and weight 35..180, any build and any
\* gender, /size/recommend answers 200 with the label of the reference mapping.
C3_SizeMatchesReference ==
    resp.endpoint = "recommend_size" =>
        LET r == resp.request
        IN  (r.height_cm[1] \in 120..230 /\ r.weight_kg[1] \in 35..180) =>
                /\ resp.status = 200
                /\ resp.body.recommended_size =
                       ReferenceSize(r.height_cm[1], r.weight_kg[1], r.build[1])

\* score exactly 10 (160 cm, 60 kg, athletic) is answered M, with a gender supplied
C3_Witness ==
    /\ resp.endpoint = "recommend_size"
    /\ resp.request = [height_cm |-> Some(160), weight_kg |-> Some(60),
                       build |-> Some("athletic"), gender |-> Some("Women")]
    /\ resp.body = [recommended_size |-> "M"]

\* a body that breaks a constraint of its schema, stated from the data model
Absent(body, fields) == \E f \in fields : body[f] = None

ViolatesSchema(endpoint, body) ==
    CASE endpoint = "add_review" ->
            \/ Absent(body, {"product_slug", "name", "rating", "comment"})
            \/ body.rating[1] < 1 \/ body.rating[1] > 5
      [] endpoint = "send_contact" -> Absent(body, {"name", "email", "message"})
      [] endpoint = "recommend_size" ->
            \/ Absent(body, {"height_cm", "weight_kg", "build"})
            \/ body.height_cm[1] < 120 \/ body.height_cm[1] > 230
            \/ body.weight_kg[1] < 35 \/ body.weight_kg[1] > 180
      [] endpoint = "checkout" ->
            \/ Absent(body, {"items", "email", "shipping_name", "shipping_address",
                             "city", "country", "postal_code", "total"})
            \/ body.total[1] < 0
            \/ \E i \in DOMAIN body.items[1] :
                   \/ Absent(body.items[1][i], {"product_slug", "size", "color", "quantity"})
                   \/ body.items[1][i].quantity[1] < 1
      [] OTHER -> FALSE

\* C4: a request whose body violates a schema constraint is answered 422 before any
\* store call: no store operation is issued and no collection changes.
C4_InvalidBodyNeverReachesStore ==
    [][(resp' # resp /\ ViolatesSchema(resp'.endpoint, resp'.request)) =>
            /\ resp'.status = 422
            /\ resp'.ops = <<>>
            /\ UNCHANGED collections
      ]_vars

\* an order with total -5 was rejected naming the field, with the store available
C4_Witness ==
    /\ resp.endpoint = "checkout" /\ resp.status = 422
    /\ resp.request = [BaseOrder EXCEPT !.total = Some(-5)]
    /\ resp.body.loc = {"total"}
    /\ Available

\* C5: GET /products/{slug} answers 200 with the stored product when the slug exists,
\* 404 when the store answers and no product matches, 500 exactly when the store
\* operation fails; it never changes the store.
C5_GetProductStatus ==
    [][Answered("get_product") =>
            LET slug == resp'.request.slug
                hits == {i \in DOMAIN product : product[i].slug = slug}
            IN  /\ UNCHANGED collections
                /\ resp'.status = (IF ~Available THEN 500
                                   ELSE IF hits = {} THEN 404 ELSE 200)
                /\ resp'.status = 200 =>
                       \E i \in hits :
                           resp'.body.doc = [product[i] EXCEPT !._id = ToString(@)]
      ]_vars

\* an unknown slug was answered 404 while the catalog was seeded
C5_Witness ==
    /\ resp.endpoint = "get_product" /\ resp.status = 404
    /\ resp.request.slug = "unknown-slug"
    /\ SeededCount(product) = 3

\* a stored product satisfies the parameters that are applied
Satisfies(doc, gender, activity, min_temp) ==
    /\ (gender # None => doc.gender = gender[1])
    /\ (activity # None => \E k \in DOMAIN doc.activity : doc.activity[k] = activity[1])
    /\ (min_temp # None => doc.temperature_min_c <= min_temp[1])

\* C6 as stated: every supplied parameter (anything but an absent one) is applied, so
\* no returned product violates a supplied filter.
C6_EverySuppliedFilterApplied ==
    (resp.endpoint = "list_products" /\ resp.status = 200) =>
        \A j \in DOMAIN resp.body.items :
            Satisfies(resp.body.items[j], resp.request.gender, resp.request.activity,
                      resp.request.min_temp)

\* an empty-string parameter counts as not supplied
NonEmpty(param) == IF param # None /\ param[1] = "" THEN None ELSE param

\* C6 amended: GET /products returns exactly the stored products that satisfy every
\* supplied min_temp (0 included) and every supplied non-empty gender and activity;
\* an empty-string gender or activity is treated as not supplied.
C6_ListProductsExact ==
    [][(Answered("list_products") /\ resp'.status = 200) =>
            LET r     == resp'.request
                items == resp'.body.items
                want  == {i \in DOMAIN product :
                             Satisfies(product[i], NonEmpty(r.gender),
                                       NonEmpty(r.activity), r.min_temp)}
            IN  /\ Len(items) = Cardinality(want)
                /\ \A i \in want : \E j \in DOMAIN items :
                       items[j] = [product[i] EXCEPT !._id = ToString(@)]
                /\ UNCHANGED collections
      ]_vars

\* an empty gender was ignored while min_temp -20 kept two of the three samples
C6_Witness ==
    /\ resp.endpoint = "list_products" /\ resp.status = 200
    /\ resp.request = [gender |-> Some(""), activity |-> None, min_temp |-> Some(-20)]
    /\ Len(resp.body.items) = 2
    /\ Len(product) = 3

\* C7 as stated: every handler issues at most one store operation per request.
C7_AtMostOneStoreOp == Len(resp.ops) <= 1

\* C7 amended: every handler other than POST /seed issues at most one store operation
\* per request; POST /seed issues one find followed by at most 3 inserts, and stops at
\* the first operation that fails.
C7_OneStoreOpExceptSeed ==
    /\ resp.endpoint # "seed" => Len(resp.ops) <= 1
    /\ resp.endpoint = "seed" =>
          /\ Len(resp.ops) <= 1 + Len(sample_products)
          /\ \A k \in DOMAIN resp.ops :
                resp.ops[k] = (IF k = 1 THEN "find" ELSE "insert_one")

\* a seed issued its find and its three inserts
C7_Witness == resp.endpoint = "seed" /\ Len(resp.ops) = 4 /\ resp.status = 200

\* C8: GET /test always answers 200 with the diagnostic object: the absent handle and
\* the failing listCollections are recorded in its database / connection_status
\* fields, and the store is not written.
C8_TestNeverRaises ==
    [][Answered("test") =>
            /\ resp'.status = 200
            /\ UNCHANGED collections
            /\ \A k \in DOMAIN resp'.ops : resp'.ops[k] = "list_collection_names"
            /\ resp'.body.database =
                  (IF db = "None" THEN "Available but not initialized"
                   ELSE IF storeUp THEN "Connected & Working"
                   ELSE "Connected but Error")
            /\ resp'.body.connection_status =
                  (IF db = "None" THEN "Not Connected" ELSE "Connected")
      ]_vars

\* the diagnostic recorded a failing listCollections
C8_Witness ==
    /\ resp.endpoint = "test" /\ resp.status = 200
    /\ resp.body.database = "Connected but Error"
    /\ ~storeUp

StoreDependent ==
    {"seed", "list_products", "get_product", "get_reviews", "add_review",
     "send_contact", "checkout"}

\* C9: while the store is unavailable every store-dependent endpoint answers a valid
\* request with 500, without changing the store and (every endpoint but /seed, whose
\* earlier operations may have succeeded) after at most one store operation; / and
\* /test answer 200 and /size/recommend never answers 500; while the store is
\* available (again), no request is answered 500.
C9_DegradedMode ==
    [][resp' # resp =>
            /\ (resp'.endpoint \in StoreDependent /\ resp'.status # 422) =>
                  /\ ~Available =>
                        /\ resp'.status = 500
                        /\ resp'.endpoint # "seed" => Len(resp'.ops) <= 1
                        /\ UNCHANGED collections
                  /\ Available => resp'.status \in {200, 404}
            /\ resp'.endpoint \in {"root", "test"} => resp'.status = 200
            /\ resp'.endpoint = "recommend_size" => resp'.status \in {200, 422}
      ]_vars

\* C10: after a /seed request has returned (and no other is in flight), the product
\* collection holds none or all three of the sample products.
C10_SeedAllOrNothing ==
    (resp.endpoint = "seed" /\ NoSeedInFlight) =>
        Cardinality(SeededSlugs(product)) \in {0, 3}

====
